---------------------------- MODULE Spec2Model ----------------------------
(***************************************************************************)
(* ructe: the template grammar (src/lib.rs, nom 1.x parser combinators),   *)
(* the code generator (Template::write_rust) and the batch driver          *)
(* (compile_templates).                                                    *)
(*                                                                         *)
(* A byte string is a sequence of one-character strings.  A parser result  *)
(* is nom's IResult: Done(rest, out), Error(Position(kind, pos)) or        *)
(* Incomplete(needed).  The nom 1.x macros the source expands (tag!,       *)
(* is_not!, char!, none_of!, opt!, alt!, chain!, many0!, delimited!,       *)
(* separated_list!) are written out at each place the source uses them:    *)
(* alt! returns the first Done or Incomplete, chain! and delimited! stop   *)
(* at the first Error or Incomplete, many0! ends on Error and passes       *)
(* Incomplete on.                                                          *)
(***************************************************************************)
EXTENDS Integers, Sequences, FiniteSets, TLC

VARIABLES
    input,      \* the bytes handed to the parser under test
    pc,         \* position of the run
    result,     \* IResult of the parser
    doc,        \* the Template a generator run works on
    target,     \* the name argument of write_rust
    code,       \* source text write_rust emitted
    rendered,   \* what the generated procedure does when invoked
    names,      \* compile_templates: the names argument
    idx,        \* compile_templates: index of the name being processed
    out,        \* compile_templates: contents of templates.rs
    stdout,     \* compile_templates: the lines printed for cargo
    events,     \* compile_templates: the file operations done so far, in order
    ioFail,     \* compile_templates: the I/O step that failed, or "none"
    ret         \* compile_templates: its io::Result

vars == <<input, pc, result, doc, target, code, rendered,
          names, idx, out, stdout, events, ioFail, ret>>

parseVarsButPc == <<input, result, doc, target, code, rendered>>
batchVars == <<names, idx, out, stdout, events, ioFail, ret>>

----------------------------------------------------------------------------
\* Bounds of the model.

\* longest input of the comment parser
MaxCommentLen == 6
\* longest input of the expression parser
MaxExprLen == 5

----------------------------------------------------------------------------
\* Byte strings.

Take(s, n) == SubSeq(s, 1, n)
Drop(s, n) == SubSeq(s, n + 1, Len(s))
Min(a, b) == IF a < b THEN a ELSE b

\* all byte strings over alphabet A of length at most n
Strings(A, n) == UNION {[1..m -> A] : m \in 0..n}

\* index of the first byte of s that lies in S, 0 when there is none
FirstIn(s, S) ==
    IF \E j \in 1..Len(s) : s[j] \in S
    THEN CHOOSE j \in 1..Len(s) : s[j] \in S /\ \A k \in 1..(j - 1) : s[k] \notin S
    ELSE 0

\* index of the first byte of s that lies outside S, 0 when there is none
FirstNotIn(s, S) ==
    IF \E j \in 1..Len(s) : s[j] \notin S
    THEN CHOOSE j \in 1..Len(s) : s[j] \notin S /\ \A k \in 1..(j - 1) : s[k] \in S
    ELSE 0

\* whether t occurs in s starting at index j
OccursAt(s, t, j) == j >= 1 /\ j + Len(t) - 1 <= Len(s) /\ SubSeq(s, j, j + Len(t) - 1) = t

----------------------------------------------------------------------------
\* nom::IResult

Done(rest, o) == [k |-> "Done", rest |-> rest, out |-> o, err |-> "none"]
Error(kind, pos) == [k |-> "Error", rest |-> pos, out |-> <<>>, err |-> kind]
Incomplete == [k |-> "Incomplete", rest |-> <<>>, out |-> <<>>, err |-> "needed"]

----------------------------------------------------------------------------
\* Byte classes of nom 1.x.

Lower == {"a","b","c","d","e","f","g","h","i","j","k","l","m",
          "n","o","p","q","r","s","t","u","v","w","x","y","z"}
Upper == {"A","B","C","D","E","F","G","H","I","J","K","L","M",
          "N","O","P","Q","R","S","T","U","V","W","X","Y","Z"}
Digit == {"0","1","2","3","4","5","6","7","8","9"}
is_alphabetic == Lower \cup Upper
is_alphanumeric == is_alphabetic \cup Digit
is_multispace == {" ", "\t", "\r", "\n"}

----------------------------------------------------------------------------
\* nom 1.x primitives.

\* tag!(t): compares the bytes present, then asks for more
tag(i, t) ==
    LET m == Min(Len(i), Len(t)) IN
    IF Take(i, m) # Take(t, m) THEN Error("Tag", i)
    ELSE IF m < Len(t) THEN Incomplete
    ELSE Done(Drop(i, Len(t)), t)

\* is_not!(S): the longest non-empty run of bytes outside S
is_not(i, S) ==
    LET p == FirstIn(i, S) IN
    IF p = 1 THEN Error("IsNot", i)
    ELSE IF p = 0 THEN Done(<<>>, i)
    ELSE Done(Drop(i, p - 1), Take(i, p - 1))

\* char!(c)
char(i, c) ==
    IF i = <<>> THEN Incomplete
    ELSE IF i[1] = c THEN Done(Drop(i, 1), c)
    ELSE Error("Char", i)

\* none_of!(S)
none_of(i, S) ==
    IF i = <<>> THEN Incomplete
    ELSE IF i[1] \in S THEN Error("NoneOf", i)
    ELSE Done(Drop(i, 1), i[1])

\* the run scanners alpha, alphanumeric, multispace: a run that reaches the
\* end of the input is Done with an empty rest (also on empty input)
run_of(i, S, kind) ==
    LET p == FirstNotIn(i, S) IN
    IF p = 1 THEN Error(kind, i)
    ELSE IF p = 0 THEN Done(<<>>, i)
    ELSE Done(Drop(i, p - 1), Take(i, p - 1))

alpha(i) == run_of(i, is_alphabetic, "Alpha")
alphanumeric(i) == run_of(i, is_alphanumeric, "AlphaNumeric")
multispace(i) == run_of(i, is_multispace, "MultiSpace")

eof(i) == IF i = <<>> THEN Done(i, i) ELSE Error("Eof", i)

----------------------------------------------------------------------------
\* nom 1.x combinators.  A parser that follows another in chain! or
\* delimited! is written as a step that is given the result before it and
\* returns it unchanged unless it is Done.

\* alt!(a | b): the first result that is Done or Incomplete
alt2(a, b) == IF a.k = "Error" THEN b ELSE a

\* alt! with no alternative left: Error(Position(ErrorKind::Alt, i))
alt_end(i, r) == IF r.k = "Error" THEN Error("Alt", i) ELSE r

\* chain!(p, || ()) and value!((), p)
unit(r) == IF r.k = "Done" THEN Done(r.rest, <<>>) ELSE r

\* ... ~ tag!(t)
then_tag(r, t) == IF r.k # "Done" THEN r ELSE tag(r.rest, t)

\* ... ~ is_not!(S)
then_is_not(r, S) == IF r.k # "Done" THEN r ELSE is_not(r.rest, S)

\* ... ~ none_of!(S)
then_none_of(r, S) == IF r.k # "Done" THEN r ELSE none_of(r.rest, S)

----------------------------------------------------------------------------
\* comment (lib.rs 154-160)

\* alt!(chain!(is_not!("*"), ||()) | chain!(tag!("*") ~ none_of!("@"), ||()))
comment_item(i) ==
    alt_end(i, alt2(unit(is_not(i, {"*"})),
                    unit(then_none_of(tag(i, <<"*">>), {"@"}))))

\* many0!(alt!(...)) of the comment body: ends at the end of the input or
\* on Error, passes Incomplete on
RECURSIVE comment_body(_)
comment_body_next(i, r) ==
    IF r.k = "Error" THEN Done(i, <<>>)
    ELSE IF r.k = "Incomplete" THEN r
    ELSE IF Len(r.rest) = Len(i) THEN Done(i, <<>>)
    ELSE comment_body(r.rest)

comment_body(i) ==
    IF i = <<>> THEN Done(i, <<>>) ELSE comment_body_next(i, comment_item(i))

then_comment_body(o) == IF o.k # "Done" THEN o ELSE comment_body(o.rest)

\* value!((), delimited!(tag!("@*"), many0!(...), tag!("*@")))
comment(i) ==
    unit(then_tag(then_comment_body(tag(i, <<"@", "*">>)), <<"*", "@">>))

----------------------------------------------------------------------------
\* rust_name and expression (lib.rs 110-117, 141-146)

\* rest: opt!(alphanumeric), || format!("{}{}", first, rest.unwrap_or(b""))
rust_name_join(f, r) ==
    IF r.k = "Incomplete" THEN r
    ELSE IF r.k = "Error" THEN Done(f.rest, f.out)
    ELSE Done(r.rest, f.out \o r.out)

rust_name_rest(f) ==
    IF f.k # "Done" THEN f ELSE rust_name_join(f, alphanumeric(f.rest))

\* chain!(first: alpha ~ rest: opt!(alphanumeric), ...)
rust_name(i) == rust_name_rest(alpha(i))

RECURSIVE expression(_)

\* || format!("{}.{}", pre, post)
dotted_join(pre, post) ==
    IF post.k # "Done" THEN post
    ELSE Done(post.rest, pre.out \o <<".">> \o post.out)

\* ... ~ post: expression
dotted_post(pre, c) ==
    IF c.k # "Done" THEN c ELSE dotted_join(pre, expression(c.rest))

\* chain!(pre: rust_name ~ char!('.') ~ ...)
dotted(pre) ==
    IF pre.k # "Done" THEN pre ELSE dotted_post(pre, char(pre.rest, "."))

\* alt!(chain!(pre: rust_name ~ char!('.') ~ post: expression, ..) | rust_name)
expression(i) == alt_end(i, alt2(dotted(rust_name(i)), rust_name(i)))

----------------------------------------------------------------------------
\* spacelike (lib.rs 148-152)

\* spacelike_item that skips whitespace but not comments
spacelike_item_space_only(i) == alt_end(i, unit(multispace(i)))

\* alt!(comment | chain!(multispace, ||()))
spacelike_item(i) == alt_end(i, alt2(comment(i), unit(multispace(i))))

\* chain!(many0!(alt!(...)), || ())
RECURSIVE spacelike(_)
spacelike_next(i, r) ==
    IF r.k = "Error" THEN Done(i, <<>>)
    ELSE IF r.k = "Incomplete" THEN r
    ELSE IF Len(r.rest) = Len(i) THEN Done(i, <<>>)
    ELSE spacelike(r.rest)

spacelike(i) ==
    IF i = <<>> THEN Done(i, <<>>) ELSE spacelike_next(i, spacelike_item(i))

\* ... ~ spacelike
then_spacelike(r) == IF r.k # "Done" THEN r ELSE spacelike(r.rest)

----------------------------------------------------------------------------
\* TemplateExpression and template_expression (lib.rs 42-47, 90-107)

Comment == [type |-> "Comment", s |-> <<>>]
Text(t) == [type |-> "Text", s |-> t]
Expression(e) == [type |-> "Expression", s |-> e]

\* chain!(comment, || TemplateExpression::Comment)
as_comment(r) == IF r.k = "Done" THEN Done(r.rest, Comment) ELSE r

\* chain!(text: is_not!("@"), || TemplateExpression::Text { text: .. })
as_text(r) == IF r.k = "Done" THEN Done(r.rest, Text(r.out)) ELSE r

\* chain!(tag!("@") ~ expr: expression, || TemplateExpression::Expression{ expr: expr })
then_expression(a) == IF a.k # "Done" THEN a ELSE expression(a.rest)
as_expression(r) == IF r.k = "Done" THEN Done(r.rest, Expression(r.out)) ELSE r

\* alt!(comment | text | "@" expression)
template_expression(i) ==
    alt_end(i, alt2(as_comment(comment(i)),
                    alt2(as_text(is_not(i, {"@"})),
                         as_expression(then_expression(tag(i, <<"@">>))))))

\* body: many0!(template_expression)
RECURSIVE template_body(_, _)
template_body_next(i, acc, r) ==
    IF r.k = "Error" THEN Done(i, acc)
    ELSE IF r.k = "Incomplete" THEN r
    ELSE IF Len(r.rest) = Len(i) THEN Done(i, acc)
    ELSE template_body(r.rest, Append(acc, r.out))

template_body(i, acc) ==
    IF i = <<>> THEN Done(i, acc)
    ELSE template_body_next(i, acc, template_expression(i))

----------------------------------------------------------------------------
\* the preamble and the argument list of template (lib.rs 66-74, 82-88)

\* ..., || from_utf8(code).unwrap().to_string()
preamble_end(c, sp) == IF sp.k # "Done" THEN sp ELSE Done(sp.rest, c)

\* ... ~ tag!(";") ~ spacelike
preamble_code(c) ==
    IF c.k # "Done" THEN c
    ELSE preamble_end(c.out, then_spacelike(tag(c.rest, <<";">>)))

\* chain!(tag!("@") ~ code: is_not!(";()") ~ tag!(";") ~ spacelike, || code)
preamble_item(i) == preamble_code(then_is_not(tag(i, <<"@">>), {";", "(", ")"}))

\* preamble: many0!(chain!(...))
RECURSIVE template_preamble(_, _)
template_preamble_next(i, acc, r) ==
    IF r.k = "Error" THEN Done(i, acc)
    ELSE IF r.k = "Incomplete" THEN r
    ELSE IF Len(r.rest) = Len(i) THEN Done(i, acc)
    ELSE template_preamble(r.rest, Append(acc, r.out))

template_preamble(i, acc) ==
    IF i = <<>> THEN Done(i, acc)
    ELSE template_preamble_next(i, acc, preamble_item(i))

\* the separator of the argument list, tag!(", ")
ArgSeparator == <<",", " ">>

\* formal_argument that stops at ")" only
formal_argument_to_paren(i) == is_not(i, {")"})

\* chain!(raw: is_not!(",)"), || raw)
formal_argument(i) == is_not(i, {",", ")"})

\* the loop of separated_list!: a separator, then an element; a separator
\* with no element after it is not consumed
RECURSIVE args_rest(_, _)
args_push(i, acc, i2, f) ==
    IF f.k # "Done" \/ Len(f.rest) = Len(i2) THEN Done(i, acc)
    ELSE args_rest(f.rest, Append(acc, f.out))

args_element(i, acc, sep) ==
    IF sep.k # "Done" \/ Len(sep.rest) = Len(i) THEN Done(i, acc)
    ELSE args_push(i, acc, sep.rest, formal_argument(sep.rest))

args_rest(i, acc) == args_element(i, acc, tag(i, ArgSeparator))

\* the first element of separated_list!: none is the empty list
args_first(i, f) ==
    IF f.k = "Error" THEN Done(i, <<>>)
    ELSE IF f.k = "Incomplete" THEN f
    ELSE IF Len(f.rest) = Len(i) THEN Error("SeparatedList", i)
    ELSE args_rest(f.rest, <<f.out>>)

\* args: separated_list!(tag!(", "), formal_argument)
template_args(i) == args_first(i, formal_argument(i))

----------------------------------------------------------------------------
\* template (lib.rs 63-80)

\* || { Template { preamble: preamble, args: args, body: body } }
template_done(preamble, args, body, e) ==
    IF e.k # "Done" THEN e
    ELSE Done(e.rest, [preamble |-> preamble, args |-> args, body |-> body])

\* after_body without the eof step: input left over after the body is ignored
after_body_no_eof(preamble, args, body) ==
    IF body.k # "Done" THEN body
    ELSE Done(body.rest, [preamble |-> preamble, args |-> args, body |-> body.out])

\* ... ~ eof
after_body(preamble, args, body) ==
    IF body.k # "Done" THEN body
    ELSE template_done(preamble, args, body.out, eof(body.rest))

\* ... ~ body: many0!(template_expression)
after_skip(preamble, args, s2) ==
    IF s2.k # "Done" THEN s2
    ELSE after_body(preamble, args, template_body(s2.rest, <<>>))

\* ... ~ tag!(")") ~ spacelike
after_args(preamble, args) ==
    IF args.k # "Done" THEN args
    ELSE after_skip(preamble, args.out, then_spacelike(tag(args.rest, <<")">>)))

\* ... ~ args: separated_list!(tag!(", "), formal_argument)
after_open(preamble, open) ==
    IF open.k # "Done" THEN open
    ELSE after_args(preamble, template_args(open.rest))

\* ... ~ tag!("@(")
after_preamble(pre) ==
    IF pre.k # "Done" THEN pre
    ELSE after_open(pre.out, tag(pre.rest, <<"@", "(">>))

\* ... ~ preamble: many0!(...)
after_spacelike(s1) ==
    IF s1.k # "Done" THEN s1
    ELSE after_preamble(template_preamble(s1.rest, <<>>))

\* chain!(spacelike ~ ...)
template(i) == after_spacelike(spacelike(i))

----------------------------------------------------------------------------
\* Template::write_rust and TemplateExpression::code (lib.rs 18-40, 49-61)
\*
\* Emitted source text is a sequence whose elements are the fixed pieces of
\* the format strings (whole strings of several characters) and, spliced
\* between them, the bytes of the template's own strings and the name.

RECURSIVE Flatten(_)
Flatten(ss) == IF ss = <<>> THEN <<>> ELSE Head(ss) \o Flatten(Tail(ss))

TextOpen == "try!(write!(out, \""
TextClose == "\"));\n"
ExprOpen == "try!("
ExprClose == ".to_html(out));\n"
LineEnd == ";\n"
FnOpen == "\npub fn "
SinkParam == "(out: &mut Write"
ArgLead == ", "
SigClose == ") -> io::Result<()> {\n"
FnClose == "Ok(())\n}"

\* code_of that emits a write of the empty text for a Comment
code_of_comment_writes(b) ==
    IF b.type = "Expression" THEN <<ExprOpen>> \o b.s \o <<ExprClose>>
    ELSE <<TextOpen>> \o b.s \o <<TextClose>>

code_of(b) ==
    IF b.type = "Comment" THEN <<>>
    ELSE IF b.type = "Text" THEN <<TextOpen>> \o b.s \o <<TextClose>>
    ELSE <<ExprOpen>> \o b.s \o <<ExprClose>>

write_rust(t, name) ==
    Flatten([j \in 1..Len(t.preamble) |-> t.preamble[j] \o <<LineEnd>>])
    \o <<FnOpen, name, SinkParam>>
    \o Flatten([j \in 1..Len(t.args) |-> <<ArgLead>> \o t.args[j]])
    \o <<SigClose>>
    \o Flatten([j \in 1..Len(t.body) |-> code_of(t.body[j])])
    \o <<FnClose>>

----------------------------------------------------------------------------
\* What the emitted procedure does when it is compiled and invoked with a
\* sink that never fails.  The text of a Text node stands between the quotes
\* of a string literal that is the format string of write! (lib.rs 54): the
\* compiler first reads the literal (a quote ends it, a backslash starts an
\* escape), then reads the result as a format string ({{ and }} stand for
\* one brace, a single brace opens or closes an argument, and there is none).

Invalid == [ok |-> FALSE, written |-> <<>>]
Wrote(w) == [ok |-> TRUE, written |-> w]

\* the bytes a string literal with these source bytes denotes
RECURSIVE unescape(_, _)
unescape(lit, acc) ==
    IF lit = <<>> THEN Wrote(acc)
    ELSE IF lit[1] = "\"" THEN Invalid
    ELSE IF lit[1] = "\\" THEN
        IF Len(lit) = 1 THEN Invalid
        ELSE IF lit[2] \in {"\\", "\""} THEN unescape(Drop(lit, 2), Append(acc, lit[2]))
        ELSE IF lit[2] = "n" THEN unescape(Drop(lit, 2), Append(acc, "\n"))
        ELSE IF lit[2] = "t" THEN unescape(Drop(lit, 2), Append(acc, "\t"))
        ELSE IF lit[2] = "r" THEN unescape(Drop(lit, 2), Append(acc, "\r"))
        ELSE Invalid
    ELSE unescape(Drop(lit, 1), Append(acc, lit[1]))

\* the bytes a format string without arguments writes
RECURSIVE format_literal(_, _)
format_literal(f, acc) ==
    IF f = <<>> THEN Wrote(acc)
    ELSE IF f[1] \in {"{", "}"} THEN
        IF Len(f) >= 2 /\ f[2] = f[1]
        THEN format_literal(Drop(f, 2), Append(acc, f[1]))
        ELSE Invalid
    ELSE format_literal(Drop(f, 1), Append(acc, f[1]))

write_text(lit) ==
    LET u == unescape(lit, <<>>) IN
    IF u.ok THEN format_literal(u.written, <<>>) ELSE Invalid

\* an escaped rendering written by to_html, kept symbolic
Html(path) == [html |-> path]

\* the statements of the emitted body, run in order
RECURSIVE run_body(_, _)
run_body(c, acc) ==
    IF c = <<>> THEN Invalid
    ELSE IF c = <<FnClose>> THEN Wrote(acc)
    ELSE IF c[1] = TextOpen THEN
        LET q == FirstIn(c, {TextClose}) IN
        IF q = 0 THEN Invalid
        ELSE LET w == write_text(SubSeq(c, 2, q - 1)) IN
             IF w.ok THEN run_body(Drop(c, q), acc \o w.written) ELSE Invalid
    ELSE IF c[1] = ExprOpen THEN
        LET q == FirstIn(c, {ExprClose}) IN
        IF q = 0 THEN Invalid
        ELSE run_body(Drop(c, q), Append(acc, Html(SubSeq(c, 2, q - 1))))
    ELSE Invalid

invoke(c) ==
    LET b == FirstIn(c, {SigClose}) IN
    IF b = 0 THEN Invalid ELSE run_body(Drop(c, b), <<>>)

----------------------------------------------------------------------------
\* Runs of one parser on one input.

NoResult == [k |-> "none", rest |-> <<>>, out |-> <<>>, err |-> "none"]
NoDoc == [preamble |-> <<>>, args |-> <<>>, body |-> <<>>]

NoFailure == [step |-> "none", at |-> 0]

BatchIdle ==
    /\ names = <<>>
    /\ idx = 0
    /\ out = <<>>
    /\ stdout = <<>>
    /\ events = <<>>
    /\ ioFail = NoFailure
    /\ ret = "none"

ParseIdle ==
    /\ result = NoResult
    /\ doc = NoDoc
    /\ target = ""
    /\ code = <<>>
    /\ rendered = <<>>

CommentAlphabet == {"@", "*", "c", " "}
CommentInputs == Strings(CommentAlphabet, MaxCommentLen)

InitComment ==
    /\ input \in CommentInputs
    /\ pc = "ready"
    /\ ParseIdle
    /\ BatchIdle

RunComment ==
    /\ pc = "ready"
    /\ result' = comment(input)
    /\ pc' = "parsed"
    /\ UNCHANGED <<input, doc, target, code, rendered>>
    /\ UNCHANGED batchVars

SpecComment == InitComment /\ [][RunComment]_vars

ExprAlphabet == {"a", "Z", "1", ".", "_", " "}
ExprInputs == Strings(ExprAlphabet, MaxExprLen)

InitExpression ==
    /\ input \in ExprInputs
    /\ pc = "ready"
    /\ ParseIdle
    /\ BatchIdle

RunExpression ==
    /\ pc = "ready"
    /\ result' = expression(input)
    /\ pc' = "parsed"
    /\ UNCHANGED <<input, doc, target, code, rendered>>
    /\ UNCHANGED batchVars

SpecExpression == InitExpression /\ [][RunExpression]_vars

----------------------------------------------------------------------------
\* template, then write_rust, then the emitted procedure invoked.

\* longest body after one of the headers
MaxBodyLen == 5
\* longest pure text body
MaxTextLen == 4
\* longest argument-list input
MaxArgLen == 5

Headers == { <<"@", "(", "a", ")">>,
             <<"@", "u", ";", "@", "(", "a", ",", " ", "b", ")">>,
             <<" ", "@", "(", ")">> }
BodyAlphabet == {"@", "*", " ", "a", "."}
TextAlphabet == {"a", " ", "\"", "\\", "{", "}"}
ArgAlphabet == {"a", ",", " ", "(", ")"}

TemplateInputs ==
    {h \o b : h \in Headers, b \in Strings(BodyAlphabet, MaxBodyLen)}
    \cup {<<"@", "(", "a", ")">> \o t : t \in Strings(TextAlphabet, MaxTextLen)}
    \cup {<<"@", "(">> \o a : a \in Strings(ArgAlphabet, MaxArgLen)}

FnNames == {"page", "index"}

InitTemplate ==
    /\ input \in TemplateInputs
    /\ pc = "ready"
    /\ ParseIdle
    /\ BatchIdle

RunTemplate ==
    /\ pc = "ready"
    /\ result' = template(input)
    /\ doc' = IF result'.k = "Done" THEN result'.out ELSE NoDoc
    /\ pc' = "parsed"
    /\ UNCHANGED <<input, target, code, rendered>>
    /\ UNCHANGED batchVars

\* Done(_, t) => t.write_rust(&mut f, name)
WriteRust ==
    /\ pc = "parsed"
    /\ result.k = "Done"
    /\ \E name \in FnNames :
          /\ target' = name
          /\ code' = write_rust(doc, name)
    /\ pc' = "generated"
    /\ UNCHANGED <<input, result, doc, rendered>>
    /\ UNCHANGED batchVars

Invoke ==
    /\ pc = "generated"
    /\ rendered' = invoke(code)
    /\ pc' = "invoked"
    /\ UNCHANGED <<input, result, doc, target, code>>
    /\ UNCHANGED batchVars

SpecTemplate == InitTemplate /\ [][RunTemplate \/ WriteRust \/ Invoke]_vars

----------------------------------------------------------------------------
\* write_rust on Templates drawn from bounded sets.

\* most preamble statements, most arguments, most body nodes of a Template
MaxPreamble == 2
MaxArgs == 2
MaxNodes == 3

PreambleLines == {<<"u">>, <<"v", "w">>}
ArgTexts == {<<"a">>, <<"b", ":", "T">>}
Nodes == {Comment, Text(<<"x">>), Text(<<"y", "z">>), Expression(<<"a">>),
          Expression(<<"a", ".", "b">>)}

Templates ==
    [preamble : Strings(PreambleLines, MaxPreamble),
     args : Strings(ArgTexts, MaxArgs),
     body : Strings(Nodes, MaxNodes)]

InitGen ==
    /\ doc \in Templates
    /\ input = <<>>
    /\ result = Done(<<>>, doc)
    /\ pc = "parsed"
    /\ target = ""
    /\ code = <<>>
    /\ rendered = <<>>
    /\ BatchIdle

SpecGen == InitGen /\ [][WriteRust \/ Invoke]_vars

----------------------------------------------------------------------------
\* compile_templates (lib.rs 192-222)
\*
\* Every file operation (File::create, write!, File::open, read_to_end) may
\* fail; try! and and_then then make the function return the error.  A
\* write that fails may have written part of its text.

\* most names of one batch
MaxNames == 3

TemplateNames == {"hello", "page", "stray", "open", "tail"}

\* the bytes of <name>.rs.html in indir
Source(name) ==
    IF name = "hello" THEN <<"@", "(", "a", ")", "h", "i">>
    ELSE IF name = "page" THEN
        <<"@", "u", ";", "@", "(", "a", ",", " ", "b", ")", " ", "x", "@", "a", ".", "b", " ">>
    ELSE IF name = "stray" THEN <<"@", "(", "a", ")", "x", "@", " ", "y">>
    ELSE IF name = "open" THEN <<"@", "(", "a", ")", "@", "*", "c">>
    ELSE <<"@", "(", ")", "@", "*", "c", "*", "@", "x", "@", "a">>

Chunk(kind, name, text) == [kind |-> kind, name |-> name, text |-> text]
\* what templates.rs held before the build
Stale == Chunk("stale", "", <<>>)
\* "mod templates {\n use std::io::{self, Write};\n use std::fmt::Display;\n"
ModHeader == Chunk("header", "", <<>>)
\* template_utils.rs and the closing "}\n" of the module
Utils == Chunk("utils", "", <<>>)
\* the written part of a text whose write failed
Partial == Chunk("partial", "", <<>>)
Function(name, text) == Chunk("fn", name, text)

Line(kind, i, what) == [kind |-> kind, i |-> i, what |-> what]
Event(op, i) == [op |-> op, i |-> i]

InitBatch ==
    /\ names \in Strings(TemplateNames, MaxNames)
    /\ idx = 0
    /\ out = <<Stale>>
    /\ stdout = <<>>
    /\ events = <<>>
    /\ ioFail = NoFailure
    /\ ret = "none"
    /\ pc = "create"
    /\ input = <<>>
    /\ ParseIdle

\* an I/O error at `step`, with i names entered so far: the function returns it
Fail(step, i) ==
    /\ ioFail' = [step |-> step, at |-> i]
    /\ ret' = "Err"
    /\ pc' = "done"

\* the for loop moves to the next name, or past the loop
Advance ==
    /\ idx' = idx + 1
    /\ pc' = IF idx < Len(names) THEN "open" ELSE "footer"

\* CreateOutput that opens the file without truncating it
CreateOutput_keep_contents ==
    /\ pc = "create"
    /\ events' = Append(events, Event("create", 0))
    /\ \/ /\ pc' = "header"
          /\ UNCHANGED <<out, ioFail, ret>>
       \/ /\ Fail("create", 0)
          /\ UNCHANGED out
    /\ UNCHANGED <<names, idx, stdout>>
    /\ UNCHANGED parseVarsButPc

\* File::create(outdir.join("templates.rs")): truncates the file
CreateOutput ==
    /\ pc = "create"
    /\ events' = Append(events, Event("create", 0))
    /\ \/ /\ out' = <<>>
          /\ pc' = "header"
          /\ UNCHANGED <<ioFail, ret>>
       \/ /\ Fail("create", 0)
          /\ UNCHANGED out
    /\ UNCHANGED <<names, idx, stdout>>
    /\ UNCHANGED parseVarsButPc

\* try!(write!(f, "mod templates {{ ..."))
WriteHeader ==
    /\ pc = "header"
    /\ events' = Append(events, Event("header", 0))
    /\ \/ /\ out' = Append(out, ModHeader)
          /\ Advance
          /\ UNCHANGED <<ioFail, ret>>
       \/ /\ Fail("header", 0)
          /\ out' \in {out, Append(out, Partial)}
          /\ UNCHANGED idx
    /\ UNCHANGED <<names, stdout>>
    /\ UNCHANGED parseVarsButPc

\* OpenTemplate that warns about a file it cannot open and goes on
OpenTemplate_skip_unreadable ==
    /\ pc = "open"
    /\ events' = Append(events, Event("open", idx))
    /\ \/ /\ pc' = "read"
          /\ stdout' = Append(stdout, Line("rerun-if-changed", idx, ""))
          /\ UNCHANGED <<ioFail, ret, idx>>
       \/ /\ ioFail' = [step |-> "open", at |-> idx]
          /\ stdout' = Append(Append(stdout, Line("rerun-if-changed", idx, "")),
                              Line("warning", idx, "cannot open"))
          /\ Advance
          /\ UNCHANGED ret
    /\ UNCHANGED <<names, out>>
    /\ UNCHANGED parseVarsButPc

\* println!("cargo:rerun-if-changed=..."); try!(File::open(&path))
OpenTemplate ==
    /\ pc = "open"
    /\ stdout' = Append(stdout, Line("rerun-if-changed", idx, ""))
    /\ events' = Append(events, Event("open", idx))
    /\ \/ /\ pc' = "read"
          /\ UNCHANGED <<ioFail, ret>>
       \/ Fail("open", idx)
    /\ UNCHANGED <<names, idx, out>>
    /\ UNCHANGED parseVarsButPc

\* try!(input.read_to_end(&mut buf))
ReadTemplate ==
    /\ pc = "read"
    /\ events' = Append(events, Event("read", idx))
    /\ \/ /\ pc' = "parse"
          /\ input' = Source(names[idx])
          /\ UNCHANGED <<ioFail, ret>>
       \/ /\ Fail("read", idx)
          /\ UNCHANGED input
    /\ UNCHANGED <<names, idx, out, stdout>>
    /\ UNCHANGED <<result, doc, target, code, rendered>>

\* HandleTemplate that returns an error when the template does not parse
HandleTemplate_parse_error_fatal ==
    /\ pc = "parse"
    /\ result' = template(input)
    /\ \/ /\ result'.k = "Done"
          /\ doc' = result'.out
          /\ target' = names[idx]
          /\ code' = write_rust(doc', target')
          /\ events' = Append(Append(events, Event("parse", idx)), Event("write", idx))
          /\ out' = Append(out, Function(names[idx], code'))
          /\ Advance
          /\ UNCHANGED <<ioFail, ret, stdout>>
       \/ /\ result'.k # "Done"
          /\ stdout' = Append(stdout, Line("warning", idx, "Template parse error"))
          /\ events' = Append(events, Event("parse", idx))
          /\ ret' = "Err"
          /\ pc' = "done"
          /\ UNCHANGED <<out, ioFail, idx, doc, target, code>>
    /\ UNCHANGED <<names, input, rendered>>

\* match template(&buf) { Done(_, t) => try!(t.write_rust(&mut f, name)),
\*                        Error(err) => println!("cargo:warning=..."),
\*                        Incomplete(needed) => println!("cargo:warning=...") }
HandleTemplate ==
    /\ pc = "parse"
    /\ result' = template(input)
    /\ \/ /\ result'.k = "Done"
          /\ doc' = result'.out
          /\ target' = names[idx]
          /\ code' = write_rust(doc', target')
          /\ events' = Append(Append(events, Event("parse", idx)), Event("write", idx))
          /\ \/ /\ out' = Append(out, Function(names[idx], code'))
                /\ Advance
                /\ UNCHANGED <<ioFail, ret>>
             \/ /\ Fail("write", idx)
                /\ out' \in {out, Append(out, Partial)}
                /\ UNCHANGED idx
          /\ UNCHANGED stdout
       \/ /\ result'.k = "Error"
          /\ stdout' = Append(stdout, Line("warning", idx, "Template parse error"))
          /\ events' = Append(events, Event("parse", idx))
          /\ Advance
          /\ UNCHANGED <<out, ioFail, ret, doc, target, code>>
       \/ /\ result'.k = "Incomplete"
          /\ stdout' = Append(stdout, Line("warning", idx, "Failed to parse template"))
          /\ events' = Append(events, Event("parse", idx))
          /\ Advance
          /\ UNCHANGED <<out, ioFail, ret, doc, target, code>>
    /\ UNCHANGED <<names, input, rendered>>

\* write!(f, "{}\n}}\n", include_str!(".../src/template_utils.rs"))
WriteFooter ==
    /\ pc = "footer"
    /\ events' = Append(events, Event("footer", 0))
    /\ \/ /\ out' = Append(out, Utils)
          /\ ret' = "Ok"
          /\ pc' = "done"
          /\ UNCHANGED ioFail
       \/ /\ Fail("footer", Len(names))
          /\ out' \in {out, Append(out, Partial)}
    /\ UNCHANGED <<names, idx, stdout>>
    /\ UNCHANGED parseVarsButPc

NextBatch ==
    \/ CreateOutput
    \/ WriteHeader
    \/ OpenTemplate
    \/ ReadTemplate
    \/ HandleTemplate
    \/ WriteFooter

SpecBatch == InitBatch /\ [][NextBatch]_vars

----------------------------------------------------------------------------
\* Properties.

Max(S) == CHOOSE n \in S : \A m \in S : m <= n
Range(s) == {s[j] : j \in 1..Len(s)}

\* index of the first "*@" of s that starts after the opening tag, 0 if none
FirstClose(s) ==
    IF \E j \in 3..(Len(s) - 1) : OccursAt(s, <<"*", "@">>, j)
    THEN CHOOSE j \in 3..(Len(s) - 1) :
            /\ OccursAt(s, <<"*", "@">>, j)
            /\ \A k \in 3..(j - 1) : ~OccursAt(s, <<"*", "@">>, k)
    ELSE 0

\* C4: on an input that begins with "@*" the comment parser succeeds exactly
\* when "*@" occurs after the opening tag, and then consumes up to and
\* including the first such "*@"; any other input is rejected.
C4_CommentEndsAtFirstClose ==
    pc = "parsed" =>
        IF Len(input) >= 2 /\ Take(input, 2) = <<"@", "*">>
        THEN IF FirstClose(input) # 0
             THEN /\ result.k = "Done"
                  /\ result.rest = Drop(input, FirstClose(input) + 1)
             ELSE result.k # "Done"
        ELSE result.k # "Done"

\* identifier ('.' identifier)*
IsChain(p) ==
    /\ p # <<>>
    /\ p[1] \in is_alphabetic
    /\ p[Len(p)] # "."
    /\ \A j \in 1..Len(p) : p[j] \in is_alphanumeric \cup {"."}
    /\ \A j \in 1..(Len(p) - 1) : p[j] = "." => p[j + 1] \in is_alphabetic

LongestChain(s) == Take(s, Max({n \in 1..Len(s) : IsChain(Take(s, n))}))

\* C5: the expression parser succeeds exactly when the first byte is
\* alphabetic, and then returns the longest prefix identifier ('.' identifier)*
\* and leaves the remainder, also when the end of the input ends the
\* expression; a rejected input is rejected at its start.
C5_ExpressionLongestChain ==
    pc = "parsed" =>
        IF input # <<>> /\ input[1] \in is_alphabetic
        THEN /\ result.k = "Done"
             /\ result.out = LongestChain(input)
             /\ result.rest = Drop(input, Len(LongestChain(input)))
        ELSE /\ result.k # "Done"
             /\ result.k = "Error" => result.rest = input

\* C3: a template whose body is one pure text yields a procedure that
\* writes exactly the bytes of that text.
C3_TextWrittenVerbatim ==
    (pc = "invoked" /\ Len(doc.body) = 1 /\ doc.body[1].type = "Text")
        => rendered = Wrote(doc.body[1].s)

\* whether the byte string s is the source of the body nodes, in order
RECURSIVE Covers(_, _)
Covers(nodes, s) ==
    IF nodes = <<>> THEN s = <<>>
    ELSE IF Head(nodes).type = "Text" THEN
        /\ Len(s) >= Len(Head(nodes).s)
        /\ Take(s, Len(Head(nodes).s)) = Head(nodes).s
        /\ Covers(Tail(nodes), Drop(s, Len(Head(nodes).s)))
    ELSE IF Head(nodes).type = "Expression" THEN
        /\ Len(s) >= 1 + Len(Head(nodes).s)
        /\ s[1] = "@"
        /\ SubSeq(s, 2, 1 + Len(Head(nodes).s)) = Head(nodes).s
        /\ Covers(Tail(nodes), Drop(s, 1 + Len(Head(nodes).s)))
    ELSE /\ Len(s) >= 4
         /\ Take(s, 2) = <<"@", "*">>
         /\ \E q \in 3..(Len(s) - 1) :
               /\ OccursAt(s, <<"*", "@">>, q)
               /\ Covers(Tail(nodes), Drop(s, q + 1))

\* C9: the body nodes of a parsed Template are in source order; a Text node
\* is a non-empty run without "@", no two Text nodes are adjacent, and the
\* first node is neither a Comment nor a Text that begins with whitespace.
C9_BodyNodesMaximal ==
    (pc = "parsed" /\ result.k = "Done") =>
        /\ \A j \in 1..Len(doc.body) :
              doc.body[j].type = "Text" =>
                  doc.body[j].s # <<>> /\ "@" \notin Range(doc.body[j].s)
        /\ \A j \in 1..(Len(doc.body) - 1) :
              ~(doc.body[j].type = "Text" /\ doc.body[j + 1].type = "Text")
        /\ doc.body # <<>> =>
              /\ doc.body[1].type # "Comment"
              /\ doc.body[1].type = "Text" => doc.body[1].s[1] \notin is_multispace
        /\ \E p \in 0..Len(input) : Covers(doc.body, Drop(input, p))

C9_Witness ==
    /\ pc = "parsed"
    /\ result.k = "Done"
    /\ Len(input) >= 5
    /\ Take(input, 5) = <<"@", "(", "a", ")", " ">>
    /\ Len(doc.body) = 3
    /\ doc.body[1].type = "Text"
    /\ doc.body[2].type = "Expression"

\* the pieces of s between occurrences of the byte c
RECURSIVE SplitOn(_, _)
SplitOn(s, c) ==
    IF FirstIn(s, {c}) = 0 THEN <<s>>
    ELSE <<Take(s, FirstIn(s, {c}) - 1)>> \o SplitOn(Drop(s, FirstIn(s, {c})), c)

\* the text between "@(" and the first ")" of an input that begins with "@("
ArgListText(inp) == Take(Drop(inp, 2), FirstIn(Drop(inp, 2), {")"}) - 1)
AfterArgList(inp) == Drop(Drop(inp, 2), FirstIn(Drop(inp, 2), {")"}))
HasArgList(inp) ==
    /\ Len(inp) >= 2
    /\ Take(inp, 2) = <<"@", "(">>
    /\ FirstIn(Drop(inp, 2), {")"}) # 0

\* one or more non-empty arguments separated by exactly ", "
SeparatedArgs(a) ==
    /\ SplitOn(a, ",")[1] # <<>>
    /\ \A j \in 2..Len(SplitOn(a, ",")) :
          Len(SplitOn(a, ",")[j]) >= 2 /\ SplitOn(a, ",")[j][1] = " "

DeclaredArgs(a) ==
    IF a = <<>> THEN <<>>
    ELSE [j \in 1..Len(SplitOn(a, ",")) |->
             IF j = 1 THEN SplitOn(a, ",")[1] ELSE Drop(SplitOn(a, ",")[j], 1)]

StartsWithOpen == Len(input) >= 2 /\ Take(input, 2) = <<"@", "(">>

\* C8 as stated: the argument list is accepted only when it is one or more
\* arguments separated by exactly ", ", and the arguments are these runs in
\* order; in particular "@()" is not accepted.
C8_ArgumentListNonEmpty ==
    (pc = "parsed" /\ StartsWithOpen /\ result.k = "Done") =>
        /\ HasArgList(input)
        /\ SeparatedArgs(ArgListText(input))
        /\ doc.args = DeclaredArgs(ArgListText(input))

\* C8 amended: the text between "@(" and the first ")" is accepted exactly
\* when it is empty or one or more non-empty arguments separated by exactly
\* ", "; the arguments are these runs in order (none for "@()"), and no
\* argument contains "," or ")".
C8_ArgumentList ==
    (pc = "parsed" /\ StartsWithOpen) =>
        /\ result.k = "Done" =>
              /\ HasArgList(input)
              /\ ArgListText(input) = <<>> \/ SeparatedArgs(ArgListText(input))
              /\ doc.args = DeclaredArgs(ArgListText(input))
              /\ \A j \in 1..Len(doc.args) :
                    doc.args[j] # <<>> /\ Range(doc.args[j]) \cap {",", ")"} = {}
        /\ ( /\ HasArgList(input)
             /\ ArgListText(input) = <<>> \/ SeparatedArgs(ArgListText(input))
             /\ "@" \notin Range(AfterArgList(input)) )
              => result.k = "Done"

C8_Witness ==
    /\ pc = "parsed"
    /\ StartsWithOpen
    /\ result.k = "Done"
    /\ Len(doc.args) = 2
    /\ "(" \in Range(doc.args[2])

\* the runs of s, each closed by the piece tok
RECURSIVE ClosedRuns(_, _)
ClosedRuns(s, tok) ==
    IF s = <<>> THEN <<>>
    ELSE IF FirstIn(s, {tok}) = 0 THEN << <<"unclosed">> >>
    ELSE <<Take(s, FirstIn(s, {tok}) - 1)>> \o ClosedRuns(Drop(s, FirstIn(s, {tok})), tok)

\* the runs of s, each led by the piece tok
RECURSIVE LedRuns(_, _)
LedRuns(s, tok) ==
    IF s = <<>> THEN <<>>
    ELSE IF s[1] # tok THEN << <<"unled">> >>
    ELSE IF FirstIn(Drop(s, 1), {tok}) = 0 THEN <<Drop(s, 1)>>
    ELSE <<SubSeq(s, 2, FirstIn(Drop(s, 1), {tok}))>>
         \o LedRuns(Drop(s, FirstIn(Drop(s, 1), {tok})), tok)

\* the write statements of an emitted body, read back as body nodes
RECURSIVE Statements(_)
Statements(s) ==
    IF s = <<>> THEN <<>>
    ELSE IF s[1] = TextOpen /\ FirstIn(s, {TextClose}) # 0 THEN
        <<Text(SubSeq(s, 2, FirstIn(s, {TextClose}) - 1))>>
        \o Statements(Drop(s, FirstIn(s, {TextClose})))
    ELSE IF s[1] = ExprOpen /\ FirstIn(s, {ExprClose}) # 0 THEN
        <<Expression(SubSeq(s, 2, FirstIn(s, {ExprClose}) - 1))>>
        \o Statements(Drop(s, FirstIn(s, {ExprClose})))
    ELSE <<[type |-> "Garbage", s |-> s]>>

NonComment(body) == SelectSeq(body, LAMBDA b : b.type # "Comment")
WriteCount(c) == Cardinality({j \in 1..Len(c) : c[j] \in {TextOpen, ExprOpen}})

\* C7: write_rust emits the preamble statements in order, each closed as a
\* statement; the signature with the target name, the sink parameter and the
\* arguments in order; one write statement per Text or Expression node in
\* body order and nothing for a Comment; then the success value.  A body of
\* Comment nodes only gives a procedure that writes nothing.
C7_WriteRustLayout ==
    pc \in {"generated", "invoked"} =>
        /\ FirstIn(code, {FnOpen}) # 0
        /\ FirstIn(code, {SigClose}) >= FirstIn(code, {FnOpen}) + 3
        /\ ClosedRuns(Take(code, FirstIn(code, {FnOpen}) - 1), LineEnd) = doc.preamble
        /\ code[FirstIn(code, {FnOpen}) + 1] = target
        /\ code[FirstIn(code, {FnOpen}) + 2] = SinkParam
        /\ LedRuns(SubSeq(code, FirstIn(code, {FnOpen}) + 3,
                          FirstIn(code, {SigClose}) - 1), ArgLead) = doc.args
        /\ code[Len(code)] = FnClose
        /\ Statements(SubSeq(code, FirstIn(code, {SigClose}) + 1, Len(code) - 1))
              = NonComment(doc.body)
        /\ WriteCount(code) = Len(NonComment(doc.body))
        /\ (pc = "invoked" /\ NonComment(doc.body) = <<>>) => rendered = Wrote(<<>>)

C7_Witness ==
    /\ pc = "invoked"
    /\ Len(doc.preamble) = 2
    /\ Len(doc.args) = 2
    /\ Len(doc.body) = 3
    /\ doc.body[1].type = "Text"
    /\ doc.body[2].type = "Comment"
    /\ doc.body[3].type = "Expression"

----------------------------------------------------------------------------
\* Properties of compile_templates.

Parses(n) == template(Source(n)).k = "Done"
FailedIndices == {i \in 1..Len(names) : ~Parses(names[i])}
WarningLines == SelectSeq(stdout, LAMBDA l : l.kind = "warning")

\* the render functions of the first k names, in the order of the names
RECURSIVE Functions(_, _)
Functions(ns, k) ==
    IF k = 0 THEN <<>>
    ELSE IF Parses(ns[k])
         THEN Append(Functions(ns, k - 1),
                     Function(ns[k], write_rust(template(Source(ns[k])).out, ns[k])))
         ELSE Functions(ns, k - 1)

\* C1: when no file operation fails, compile_templates returns Ok, prints
\* one warning per template that does not parse, and templates.rs holds the
\* header, one render function per parsed template in the order of the
\* names, and the runtime-support block once, at the end.
C1_BatchOutput ==
    (pc = "done" /\ ioFail = NoFailure) =>
        /\ ret = "Ok"
        /\ Len(WarningLines) = Cardinality(FailedIndices)
        /\ {WarningLines[j].i : j \in 1..Len(WarningLines)} = FailedIndices
        /\ out = <<ModHeader>> \o Functions(names, Len(names)) \o <<Utils>>
        /\ Len(SelectSeq(out, LAMBDA c : c.kind = "fn"))
              = Len(names) - Cardinality(FailedIndices)
        /\ Len(SelectSeq(out, LAMBDA c : c.kind = "utils")) = 1

C1_Witness ==
    /\ pc = "done"
    /\ ioFail = NoFailure
    /\ Len(names) = 3
    /\ Cardinality(FailedIndices) = 1
    /\ ~Parses(names[2])

\* C2: an I/O failure makes compile_templates return the error at once: no
\* file operation follows it and no template after the one at hand is
\* touched; only an I/O failure makes it return an error.
C2_IoFailureFatal ==
    /\ ret = "Err" <=> ioFail # NoFailure
    /\ ioFail # NoFailure =>
          /\ pc = "done"
          /\ ~ENABLED NextBatch
          /\ \A j \in 1..Len(events) : events[j].i <= ioFail.at
          /\ events[Len(events)].op = ioFail.step

C2_Witness ==
    /\ ioFail = [step |-> "open", at |-> 2]
    /\ Len(names) = 3
    /\ ~Parses(names[1])
    /\ ret = "Err"

\* C10: the output file is created and the header written before any
\* template file is opened; when opening or reading the k-th template
\* fails, templates.rs holds the header and the functions of the parsed
\* templates before k, and no runtime-support block.
C10_FailedBatchIncomplete ==
    /\ (\E j \in 1..Len(events) : events[j].op = "open") =>
          /\ events[1].op = "create"
          /\ events[2].op = "header"
          /\ out # <<>>
          /\ out[1] = ModHeader
    /\ ioFail.step \in {"open", "read"} =>
          out = <<ModHeader>> \o Functions(names, ioFail.at - 1)

C10_Witness ==
    /\ ioFail = [step |-> "read", at |-> 3]
    /\ Parses(names[1])
    /\ ~Parses(names[2])
    /\ Len(out) = 2

\* C6: a render function is written only for a file that the template
\* grammar matches up to its end; for a file it does not match nothing is
\* written, a warning is printed and the loop goes on to the next name.
C6_AllOrNothing ==
    /\ \A j \in 1..Len(out) :
          out[j].kind = "fn" =>
              /\ template(Source(out[j].name)).k = "Done"
              /\ template(Source(out[j].name)).rest = <<>>
              /\ \E p \in 0..Len(Source(out[j].name)) :
                    Covers(template(Source(out[j].name)).out.body,
                           Drop(Source(out[j].name), p))
              /\ out[j].text = write_rust(template(Source(out[j].name)).out, out[j].name)
    /\ \A j \in 1..Len(events) :
          (events[j].op = "parse" /\ ~Parses(names[events[j].i])) =>
              /\ idx > events[j].i
              /\ ~(ioFail.at = events[j].i /\ ioFail.step \in {"open", "read", "write"})
              /\ \A k \in 1..Len(events) :
                    ~(events[k].op = "write" /\ events[k].i = events[j].i)
              /\ \E k \in 1..Len(stdout) :
                    stdout[k].kind = "warning" /\ stdout[k].i = events[j].i
    /\ Len(SelectSeq(out, LAMBDA c : c.kind \in {"fn", "partial"}))
          <= Len(SelectSeq(events, LAMBDA e : e.op \in {"write", "header", "footer"}))
    /\ Len(SelectSeq(out, LAMBDA c : c.kind = "fn"))
          <= Len(SelectSeq(events, LAMBDA e : e.op = "write"))

C6_Witness ==
    /\ pc = "done"
    /\ ret = "Ok"
    /\ Len(names) = 3
    /\ names[1] = "stray"
    /\ names[2] = "open"
    /\ names[3] = "hello"

=============================================================================
